---- MODULE Spec2Model ----
(***************************************************************************)
(* Yatube (hw05_final): the entity store of posts/models.py (User, Group,  *)
(* Post, Comment, Follow with their referential actions, orderings and     *)
(* uniqueness constraints) and the request handlers of posts/views.py that *)
(* the tests of posts/tests exercise: the follow graph, the feed           *)
(* assembler with its pagination, the cached home page and the comment     *)
(* pipeline.                                                               *)
(***************************************************************************)
EXTENDS Integers, Sequences, FiniteSets, Bags, TLC

\* ------------------------------------------------------------------ bounds
MaxUsers == 2
MaxGroups == 2
MaxPosts == 3
MaxComments == 3
MaxTime == 2
MaxPageSize == 2
MaxPage == 3
MaxCachedPosts == 2
\* Posts, and comments, ever created in the behaviours that delete rows.
MaxCascadeRows == 2

\* ------------------------------------------------------------ the universe
\* User is django.contrib.auth's user model; a user is known by its identity.
Users == 1..MaxUsers
\* The caller of a request that carries no authenticated identity.
Anonymous == 0
Callers == Users \cup {Anonymous}
GroupIds == 1..MaxGroups
Slugs == {"test-slug", "new-test-slug"}
\* Post.group is nullable.
NoGroup == 0
Texts == {"test-text", "new-text"}
\* The two request threads of the concurrent follow.
Procs == {"p1", "p2"}

VARIABLES
    users,        \* the User rows
    groups,       \* the Group rows: [id, slug]
    posts,        \* the Post rows: [id, author, group, text, pub_date]
    comments,     \* the Comment rows: [id, post, author, text, created]
    follows,      \* the Follow rows: a bag of <<user, author>>
    nextPostId,   \* Post's auto-increment primary key
    nextCommentId,\* Comment's auto-increment primary key
    now,          \* the clock that auto_now_add reads
    cache,        \* the page cache: the entry of the home page, or NoEntry
    calls,        \* the follow requests in flight, one per request thread
    resp          \* the response to the request served by the last step

vars == <<users, groups, posts, comments, follows, nextPostId, nextCommentId,
          now, cache, calls, resp>>

store == <<users, groups, posts, comments, follows, nextPostId, nextCommentId>>

\* ---------------------------------------------------------------- responses
\* What a step hands back: the operation served, its caller and argument, the
\* outcome, and for a page the ids of page_obj and the rendered content.
NoResponse ==
    [op |-> "none", user |-> Anonymous, arg |-> <<>>, status |-> "none",
     items |-> <<>>, content |-> <<>>]
Response(op, user, arg, status) ==
    [op |-> op, user |-> user, arg |-> arg, status |-> status,
     items |-> <<>>, content |-> <<>>]
PageResponse(op, user, arg, items, content) ==
    [op |-> op, user |-> user, arg |-> arg, status |-> "ok",
     items |-> items, content |-> content]

NoEntry == [present |-> FALSE, content |-> <<>>, expires |-> 0]
IdleCall == [pc |-> "idle", user |-> Anonymous, author |-> Anonymous,
             outcome |-> "none", status |-> "none"]

\* ------------------------------------------------------------ Follow graph
Edge(user, author) == <<user, author>>

\* Follow.objects.filter(user=user, author=author).exists()
FollowingIn(rows, user, author) == CopiesIn(Edge(user, author), rows) > 0
isFollowing(user, author) == FollowingIn(follows, user, author)

\* The authors a user follows.
followingOf(user) == {a \in Users : isFollowing(user, a)}

\* Follow.objects.count()
FollowCount == BagCardinality(follows)

\* An INSERT into Follow that no constraint guards.
InsertFollowUnchecked(rows, user, author) ==
    [ok |-> TRUE, rows |-> rows (+) SetToBag({Edge(user, author)})]

\* An INSERT into Follow with the two foreign keys taken for each other.
InsertFollowSwapped(rows, user, author) ==
    IF CopiesIn(Edge(author, user), rows) > 0
    THEN [ok |-> FALSE, rows |-> rows]
    ELSE [ok |-> TRUE, rows |-> rows (+) SetToBag({Edge(author, user)})]

\* An INSERT into Follow: the UniqueConstraint unique_followers on
\* (user, author) rejects the row when the pair is already stored.
InsertFollow(rows, user, author) ==
    IF CopiesIn(Edge(user, author), rows) > 0
    THEN [ok |-> FALSE, rows |-> rows]
    ELSE [ok |-> TRUE, rows |-> rows (+) SetToBag({Edge(user, author)})]

\* Follow.objects.filter(user=user, author=author).delete()
DeleteFollow(rows, user, author) ==
    [e \in BagToSet(rows) \ {Edge(user, author)} |-> rows[e]]

\* on_delete=CASCADE of Follow.user and Follow.author
CascadeFollows(rows, u) ==
    [e \in {x \in BagToSet(rows) : x[1] # u /\ x[2] # u} |-> rows[e]]

\* ------------------------------------------------------------ Entity store
GroupIdsIn(gs) == {g.id : g \in gs}
SlugsIn(gs) == {g.slug : g \in gs}
PostIds == {p.id : p \in posts}
PostById(id) == CHOOSE p \in posts : p.id = id

\* Post: text, pub_date (auto_now_add), author, group (null=True).
NewPost(id, author, group, text, t) ==
    [id |-> id, author |-> author, group |-> group, text |-> text, pub_date |-> t]

\* Comment: post, author, text, created (auto_now_add).
NewComment(id, post, author, text, t) ==
    [id |-> id, post |-> post, author |-> author, text |-> text, created |-> t]

\* A Group INSERT that no constraint guards.
InsertGroupUnchecked(gs, id, slug) ==
    [ok |-> TRUE, rows |-> gs \cup {[id |-> id, slug |-> slug]}]

\* A Group INSERT: slug is unique=True.
InsertGroup(gs, id, slug) ==
    IF slug \in SlugsIn(gs)
    THEN [ok |-> FALSE, rows |-> gs]
    ELSE [ok |-> TRUE, rows |-> gs \cup {[id |-> id, slug |-> slug]}]

\* on_delete=CASCADE of Post.author
CascadePosts(ps, u) == {p \in ps : p.author # u}

\* A cascade that follows Comment.author only.
CascadeCommentsOfAuthor(cs, ps, u) == {c \in cs : c.author # u}

\* on_delete=CASCADE of Comment.post and Comment.author: the comments left
\* when user u goes and the posts left are ps.
CascadeComments(cs, ps, u) ==
    {c \in cs : c.author # u /\ c.post \in {p.id : p \in ps}}

\* A group delete that cascades to the group's posts.
CascadeGroup(ps, g) == {p \in ps : p.group # g}

\* on_delete=SET_NULL of Post.group
SetNullGroup(ps, g) ==
    {IF p.group = g THEN [p EXCEPT !.group = NoGroup] ELSE p : p \in ps}

\* ----------------------------------------------------------------- ordering
MaxOf(S) == CHOOSE m \in S : \A x \in S : x <= m

\* Every sequence a query ORDER BY key DESC may return: each row once, the key
\* never increasing; rows with equal keys come in whatever order the database
\* picks for that query.
RECURSIVE OrderedDesc(_, _)
OrderedDesc(S, key) ==
    IF S = {} THEN {<<>>}
    ELSE LET m == MaxOf({key[x] : x \in S})
             top == {x \in S : key[x] = m}
         IN UNION {{<<x>> \o rest : rest \in OrderedDesc(S \ {x}, key)} : x \in top}

\* Post.Meta: ordering = ('-pub_date',)
PostOrderings(S) == OrderedDesc(S, [p \in S |-> p.pub_date])

\* Comment.Meta: ordering = ('-created',)
CommentOrderings(S) == OrderedDesc(S, [c \in S |-> c.created])

Ids(seq) == [i \in 1..Len(seq) |-> seq[i].id]

\* -------------------------------------------------------------------- Init
\* The state after migrate: every table empty, the cache empty.
Init ==
    /\ users = {}
    /\ groups = {}
    /\ posts = {}
    /\ comments = {}
    /\ follows = EmptyBag
    /\ nextPostId = 1
    /\ nextCommentId = 1
    /\ now = 0
    /\ cache = NoEntry
    /\ calls = [p \in Procs |-> IdleCall]
    /\ resp = NoResponse

\* ------------------------------------------------------- store operations
\* User.objects.create_user(username=...)
CreateUser(u) ==
    /\ u \notin users
    /\ users' = users \cup {u}
    /\ resp' = NoResponse
    /\ UNCHANGED <<groups, posts, comments, follows, nextPostId, nextCommentId,
                   now, cache, calls>>

\* user.delete(): the CASCADE of Post.author, Comment.author, Comment.post,
\* Follow.user and Follow.author.
DeleteUser(u) ==
    /\ u \in users
    /\ users' = users \ {u}
    /\ posts' = CascadePosts(posts, u)
    /\ comments' = CascadeComments(comments, CascadePosts(posts, u), u)
    /\ follows' = CascadeFollows(follows, u)
    /\ resp' = NoResponse
    /\ UNCHANGED <<groups, nextPostId, nextCommentId, now, cache, calls>>

\* The clock moves on.
Tick ==
    /\ now < MaxTime
    /\ now' = now + 1
    /\ resp' = NoResponse
    /\ UNCHANGED <<store, cache, calls>>

\* Group.objects.create(slug=...): refused when the slug is taken.
CreateGroup(g, slug) ==
    /\ g \notin GroupIdsIn(groups)
    /\ InsertGroup(groups, g, slug).ok
    /\ groups' = InsertGroup(groups, g, slug).rows
    /\ resp' = NoResponse
    /\ UNCHANGED <<users, posts, comments, follows, nextPostId, nextCommentId,
                   now, cache, calls>>

\* group.delete(): the SET_NULL of Post.group.
DeleteGroup(g) ==
    /\ g \in GroupIdsIn(groups)
    /\ groups' = {x \in groups : x.id # g}
    /\ posts' = SetNullGroup(posts, g)
    /\ resp' = NoResponse
    /\ UNCHANGED <<users, comments, follows, nextPostId, nextCommentId,
                   now, cache, calls>>

\* A delete that also drops the cached home page.
DeletePostInvalidating(id) ==
    /\ id \in PostIds
    /\ posts' = {p \in posts : p.id # id}
    /\ comments' = {c \in comments : c.post # id}
    /\ cache' = NoEntry
    /\ resp' = NoResponse
    /\ UNCHANGED <<users, groups, follows, nextPostId, nextCommentId, now, calls>>

\* post.delete(), as Post.objects.all().delete() does it for every post: the
\* CASCADE of Comment.post.
DeletePost(id) ==
    /\ id \in PostIds
    /\ posts' = {p \in posts : p.id # id}
    /\ comments' = {c \in comments : c.post # id}
    /\ resp' = NoResponse
    /\ UNCHANGED <<users, groups, follows, nextPostId, nextCommentId,
                   now, cache, calls>>

\* -------------------------------------------------------------- post views
\* post_create: login is required; a valid form stores a post of the caller
\* with pub_date set to the current instant. The page cache is not touched.
PostCreate(caller, group, text) ==
    /\ caller \in users \cup {Anonymous}
    /\ group \in GroupIdsIn(groups) \cup {NoGroup}
    /\ IF caller = Anonymous
       THEN /\ resp' = Response("post_create", caller, <<>>, "redirect_login")
            /\ UNCHANGED <<posts, nextPostId>>
       ELSE /\ nextPostId <= MaxPosts
            /\ posts' = posts \cup {NewPost(nextPostId, caller, group, text, now)}
            /\ nextPostId' = nextPostId + 1
            /\ resp' = Response("post_create", caller, nextPostId, "redirect_profile")
    /\ UNCHANGED <<users, groups, comments, follows, nextCommentId, now, cache, calls>>

\* post_edit: login is required and only the author may edit; text and group
\* are replaced, pub_date stays. The page cache is not touched.
PostEdit(caller, id, group, text) ==
    /\ caller \in users \cup {Anonymous}
    /\ id \in PostIds
    /\ group \in GroupIdsIn(groups) \cup {NoGroup}
    /\ IF caller = Anonymous
       THEN /\ resp' = Response("post_edit", caller, id, "redirect_login")
            /\ UNCHANGED posts
       ELSE IF caller # PostById(id).author
       THEN /\ resp' = Response("post_edit", caller, id, "redirect_post_detail")
            /\ UNCHANGED posts
       ELSE /\ posts' = (posts \ {PostById(id)})
                           \cup {[PostById(id) EXCEPT !.group = group, !.text = text]}
            /\ resp' = Response("post_edit", caller, id, "redirect_post_detail")
    /\ UNCHANGED <<users, groups, comments, follows, nextPostId, nextCommentId,
                   now, cache, calls>>

\* ---------------------------------------------------------- feed assembler
\* The number of posts on a page of every feed.
POSTS_COUNT == 10
\* The home page is cached for 20 seconds; the clock ticks every 10 seconds.
CacheTTL == 2

Global == [kind |-> "global", slug |-> "", user |-> Anonymous]
ByGroup(slug) == [kind |-> "group", slug |-> slug, user |-> Anonymous]
ByAuthor(username) == [kind |-> "author", slug |-> "", user |-> username]
FollowingFeed(user) == [kind |-> "following", slug |-> "", user |-> user]

\* Whether the scope names something stored: an unknown slug or username is
\* NotFound.
ScopeKnown(scope) ==
    CASE scope.kind = "group" -> scope.slug \in SlugsIn(groups)
      [] scope.kind = "author" -> scope.user \in users
      [] OTHER -> TRUE

\* The rows of a scope, before ordering.
ScopePosts(scope) ==
    CASE scope.kind = "global" -> posts
      [] scope.kind = "group" ->
            {p \in posts : \E g \in groups : g.id = p.group /\ g.slug = scope.slug}
      [] scope.kind = "author" -> {p \in posts : p.author = scope.user}
      [] scope.kind = "following" -> {p \in posts : p.author \in followingOf(scope.user)}

\* The scopes that name something stored.
Scopes ==
    {Global} \cup {ByGroup(g.slug) : g \in groups}
             \cup {ByAuthor(u) : u \in users} \cup {FollowingFeed(u) : u \in users}

\* The index of the last page that holds a post; 0 when there is none.
NumPages(totalCount, pageSize) == (totalCount + pageSize - 1) \div pageSize

\* The page asked for: 1 when the index is below 1.
PageNumber(page) == IF page < 1 THEN 1 ELSE page

\* The slice of a page, with a page past the end answered by the last page.
PageOfOrLast(result, page, pageSize) ==
    LET n == IF PageNumber(page) > NumPages(Len(result), pageSize)
             THEN NumPages(Len(result), pageSize) ELSE PageNumber(page)
        last == IF n * pageSize < Len(result) THEN n * pageSize ELSE Len(result)
    IN IF n = 0 THEN <<>> ELSE SubSeq(result, (n - 1) * pageSize + 1, last)

\* The slice of an ordered result that a page holds; a page past the end
\* holds nothing.
PageOf(result, page, pageSize) ==
    LET first == (PageNumber(page) - 1) * pageSize + 1
        last == IF PageNumber(page) * pageSize < Len(result)
                THEN PageNumber(page) * pageSize ELSE Len(result)
    IN IF first > Len(result) THEN <<>> ELSE SubSeq(result, first, last)

\* assemble(scope, page, pageSize) on the ordered result of the scope's query.
assemble(result, page, pageSize) ==
    [items |-> PageOf(result, page, pageSize), totalCount |-> Len(result)]

\* The rendering of a page of posts: what the template shows of each post.
Render(items) ==
    [i \in 1..Len(items) |->
        <<items[i].id, items[i].author, items[i].pub_date, items[i].text, items[i].group>>]

CacheFresh == cache.present /\ now < cache.expires

\* index: the global feed. The context is computed live; the rendering of
\* the home page comes from the page cache when its entry is fresh and is
\* stored there for CacheTTL otherwise.
IndexView(caller, page) ==
    /\ caller \in users \cup {Anonymous}
    /\ \E result \in PostOrderings(ScopePosts(Global)) :
          LET got == assemble(result, page, POSTS_COUNT)
          IN IF PageNumber(page) = 1
             THEN IF CacheFresh
                  THEN /\ resp' = PageResponse("index", caller, <<Global, page>>, Ids(got.items),
                                               cache.content)
                       /\ UNCHANGED cache
                  ELSE /\ resp' = PageResponse("index", caller, <<Global, page>>, Ids(got.items),
                                               Render(got.items))
                       /\ cache' = [present |-> TRUE, content |-> Render(got.items),
                                    expires |-> now + CacheTTL]
             ELSE /\ resp' = PageResponse("index", caller, <<Global, page>>, Ids(got.items),
                                          Render(got.items))
                  /\ UNCHANGED cache
    /\ UNCHANGED <<store, now, calls>>

\* cache.clear()
CacheClear ==
    /\ cache' = NoEntry
    /\ resp' = NoResponse
    /\ UNCHANGED <<store, now, calls>>

\* A feed that is computed live on every request.
LiveFeed(op, caller, scope, page) ==
    /\ IF ~ScopeKnown(scope)
       THEN resp' = Response(op, caller, <<scope, page>>, "not_found")
       ELSE \E result \in PostOrderings(ScopePosts(scope)) :
               LET got == assemble(result, page, POSTS_COUNT)
               IN resp' = PageResponse(op, caller, <<scope, page>>,
                                       Ids(got.items), Render(got.items))
    /\ UNCHANGED <<store, now, cache, calls>>

\* group_list: the posts of the group with this slug.
GroupListView(caller, slug, page) ==
    /\ caller \in users \cup {Anonymous}
    /\ LiveFeed("group_list", caller, ByGroup(slug), page)

\* profile: the posts of the author with this username.
ProfileView(caller, username, page) ==
    /\ caller \in users \cup {Anonymous}
    /\ LiveFeed("profile", caller, ByAuthor(username), page)

\* follow_index: login is required; the posts of the authors the caller
\* follows.
FollowIndexView(caller, page) ==
    /\ caller \in users \cup {Anonymous}
    /\ IF caller = Anonymous
       THEN /\ resp' = Response("follow_index", caller, <<FollowingFeed(caller), page>>, "redirect_login")
            /\ UNCHANGED <<store, now, cache, calls>>
       ELSE LiveFeed("follow_index", caller, FollowingFeed(caller), page)

\* ---------------------------------------------------------- comment views
\* post.comments: the comments of a post, before ordering.
CommentsOf(id) == {c \in comments : c.post = id}

\* add_comment: login is required; a valid form stores a comment of the
\* caller on the post with created set to the current instant.
AddComment(caller, id, text) ==
    /\ caller \in users \cup {Anonymous}
    /\ IF caller = Anonymous
       THEN /\ resp' = Response("add_comment", caller, <<id, 0>>, "redirect_login")
            /\ UNCHANGED <<comments, nextCommentId>>
       ELSE IF id \notin PostIds
       THEN /\ resp' = Response("add_comment", caller, <<id, 0>>, "not_found")
            /\ UNCHANGED <<comments, nextCommentId>>
       ELSE /\ nextCommentId <= MaxComments
            /\ comments' = comments \cup {NewComment(nextCommentId, id, caller, text, now)}
            /\ nextCommentId' = nextCommentId + 1
            /\ resp' = Response("add_comment", caller, <<id, nextCommentId>>,
                                "redirect_post_detail")
    /\ UNCHANGED <<users, groups, posts, follows, nextPostId, now, cache, calls>>

\* post_detail: open to everyone; the post with post.comments in the order
\* of Comment.Meta.
PostDetailView(caller, id) ==
    /\ caller \in users \cup {Anonymous}
    /\ IF id \notin PostIds
       THEN resp' = Response("post_detail", caller, <<id, 0>>, "not_found")
       ELSE \E result \in CommentOrderings(CommentsOf(id)) :
               resp' = PageResponse("post_detail", caller, <<id, 0>>, Ids(result),
                                    Render(<<PostById(id)>>))
    /\ UNCHANGED <<store, now, cache, calls>>

\* ------------------------------------------------------------ follow views
\* profile_follow: login is required, the author is looked up by username,
\* the edge is inserted and a conflict with the uniqueness constraint counts
\* as "already following"; either way the caller is sent back to the profile.
ProfileFollow(caller, author) ==
    /\ caller \in users \cup {Anonymous}
    /\ IF caller = Anonymous
       THEN /\ resp' = Response("follow", caller, author, "redirect_login")
            /\ UNCHANGED follows
       ELSE IF author \notin users
       THEN /\ resp' = Response("follow", caller, author, "not_found")
            /\ UNCHANGED follows
       ELSE /\ follows' = InsertFollow(follows, caller, author).rows
            /\ resp' = Response("follow", caller, author, "redirect_profile")
    /\ UNCHANGED <<users, groups, posts, comments, nextPostId, nextCommentId,
                   now, cache, calls>>

\* profile_unfollow: login is required, the author is looked up by username,
\* the edge is deleted when there is one.
ProfileUnfollow(caller, author) ==
    /\ caller \in users \cup {Anonymous}
    /\ IF caller = Anonymous
       THEN /\ resp' = Response("unfollow", caller, author, "redirect_login")
            /\ UNCHANGED follows
       ELSE IF author \notin users
       THEN /\ resp' = Response("unfollow", caller, author, "not_found")
            /\ UNCHANGED follows
       ELSE /\ follows' = DeleteFollow(follows, caller, author)
            /\ resp' = Response("unfollow", caller, author, "redirect_profile")
    /\ UNCHANGED <<users, groups, posts, comments, nextPostId, nextCommentId,
                   now, cache, calls>>

\* The follow graph under user creation and deletion.
NextFollow ==
    \/ \E u \in Users : CreateUser(u)
    \/ \E u \in Users : DeleteUser(u)
    \/ \E c \in Callers, a \in Users : ProfileFollow(c, a)
    \/ \E c \in Callers, a \in Users : ProfileUnfollow(c, a)

SpecFollow == Init /\ [][NextFollow]_vars

\* ------------------------------------------------------------- the feeds
\* user_1 and user_2 of FollowsViewsTests.setUpClass, no post yet.
FixtureUsers == {1, 2}
InitFeed ==
    /\ users = FixtureUsers
    /\ groups = {}
    /\ posts = {}
    /\ comments = {}
    /\ follows = EmptyBag
    /\ nextPostId = 1
    /\ nextCommentId = 1
    /\ now = 0
    /\ cache = NoEntry
    /\ calls = [p \in Procs |-> IdleCall]
    /\ resp = NoResponse

\* Posts, follows and the following feed.
NextFollowFeed ==
    \/ \E c \in users : PostCreate(c, NoGroup, "test-text")
    \/ \E c \in users, a \in users : ProfileFollow(c, a)
    \/ \E c \in users, a \in users : ProfileUnfollow(c, a)
    \/ \E c \in users \cup {Anonymous} : FollowIndexView(c, 1)
    \/ Tick

SpecFollowFeed == InitFeed /\ [][NextFollowFeed]_vars

\* The user of PostViewsTests.setUpClass, no group and no post yet.
InitGroupFeed ==
    /\ users = {1}
    /\ groups = {}
    /\ posts = {}
    /\ comments = {}
    /\ follows = EmptyBag
    /\ nextPostId = 1
    /\ nextCommentId = 1
    /\ now = 0
    /\ cache = NoEntry
    /\ calls = [p \in Procs |-> IdleCall]
    /\ resp = NoResponse

\* Posts, groups and the group feed.
NextGroupFeed ==
    \/ \E g \in GroupIds, slug \in Slugs : CreateGroup(g, slug)
    \/ \E g \in GroupIds : DeleteGroup(g)
    \/ \E c \in users, g \in GroupIds \cup {NoGroup} : PostCreate(c, g, "test-text")
    \/ \E c \in users, id \in PostIds, g \in GroupIds \cup {NoGroup} :
          PostEdit(c, id, g, "test-text")
    \/ \E slug \in Slugs : GroupListView(Anonymous, slug, 1)
    \/ Tick

SpecGroupFeed == InitGroupFeed /\ [][NextGroupFeed]_vars

\* ------------------------------------------------------------- pagination
\* PaginatorViewsTest.setUpClass: one user, one group and range(13) posts of
\* that user in that group, here any number of them up to 13, each created
\* at its own instant.
BulkPosts == 13
InitPaginate ==
    /\ users = {1}
    /\ groups = {[id |-> 1, slug |-> "test-slug"]}
    /\ \E n \in 0..BulkPosts :
          /\ posts = {NewPost(i, 1, 1, "test-text", i) : i \in 1..n}
          /\ nextPostId = n + 1
          /\ now = n
    /\ comments = {}
    /\ follows = EmptyBag
    /\ nextCommentId = 1
    /\ cache = NoEntry
    /\ calls = [p \in Procs |-> IdleCall]
    /\ resp = NoResponse

\* The three paginated pages the tests request, page by page.
NextPaginate ==
    \/ \E page \in 0..MaxPage : IndexView(Anonymous, page)
    \/ \E page \in 0..MaxPage : GroupListView(Anonymous, "test-slug", page)
    \/ \E page \in 0..MaxPage : ProfileView(Anonymous, 1, page)

SpecPaginate == InitPaginate /\ [][NextPaginate]_vars

\* ------------------------------------------------------------ page cache
\* The home page under post writes, the clock and cache.clear().
NextCache ==
    \/ nextPostId <= MaxCachedPosts /\ PostCreate(1, NoGroup, "test-text")
    \/ \E id \in PostIds, text \in Texts : PostEdit(1, id, NoGroup, text)
    \/ \E id \in PostIds : DeletePost(id)
    \/ IndexView(Anonymous, 1)
    \/ CacheClear
    \/ Tick

SpecCache == InitGroupFeed /\ [][NextCache]_vars

\* -------------------------------------------------------------- comments
\* CommentFormTests.setUpClass with a second user and a second post: two
\* users, each with one post and no comment.
InitComment ==
    /\ users = FixtureUsers
    /\ groups = {}
    /\ posts = {NewPost(1, 1, NoGroup, "test-text", 0), NewPost(2, 2, NoGroup, "test-text", 0)}
    /\ comments = {}
    /\ follows = EmptyBag
    /\ nextPostId = 3
    /\ nextCommentId = 1
    /\ now = 0
    /\ cache = NoEntry
    /\ calls = [p \in Procs |-> IdleCall]
    /\ resp = NoResponse

NextComment ==
    \/ \E c \in users \cup {Anonymous}, id \in 1..MaxPosts : AddComment(c, id, "test-text")
    \/ \E id \in 1..MaxPosts : PostDetailView(Anonymous, id)
    \/ Tick

SpecComment == InitComment /\ [][NextComment]_vars

\* ----------------------------------------------------------- group deletes
\* Groups created and deleted under posts that are each created in a group.
NextGroupDelete ==
    \/ \E g \in GroupIds, slug \in Slugs : CreateGroup(g, slug)
    \/ \E g \in GroupIds : DeleteGroup(g)
    \/ \E c \in users, g \in GroupIdsIn(groups), text \in Texts : PostCreate(c, g, text)
    \/ Tick

SpecGroupDelete == InitGroupFeed /\ [][NextGroupDelete]_vars

\* ---------------------------------------------------------------- deletes
\* Users, their posts, comments and follows, created and deleted.
NextDelete ==
    \/ \E u \in FixtureUsers : CreateUser(u)
    \/ \E u \in FixtureUsers : DeleteUser(u)
    \/ \E c \in users : nextPostId <= MaxCascadeRows /\ PostCreate(c, NoGroup, "test-text")
    \/ \E id \in PostIds : DeletePost(id)
    \/ \E c \in users, id \in PostIds :
          nextCommentId <= MaxCascadeRows /\ AddComment(c, id, "test-text")
    \/ \E c \in users, a \in users : ProfileFollow(c, a)

SpecDelete == Init /\ [][NextDelete]_vars

\* ------------------------------------------------- concurrent follow calls
\* A request thread in profile_follow, past the login check and the lookup of
\* the author: it attempts the INSERT. The store decides; the thread only
\* learns whether its row went in.
FollowInsertStep(p) ==
    /\ calls[p].pc = "insert"
    /\ LET r == InsertFollow(follows, calls[p].user, calls[p].author)
       IN /\ follows' = r.rows
          /\ calls' = [calls EXCEPT ![p].pc = "classify",
                                    ![p].outcome = IF r.ok THEN "created" ELSE "conflict"]
    /\ resp' = NoResponse
    /\ UNCHANGED <<users, groups, posts, comments, nextPostId, nextCommentId,
                   now, cache>>

\* The thread classifies the outcome: a conflict with the uniqueness
\* constraint means "already following", and both outcomes send the caller
\* back to the profile.
FollowClassifyStep(p) ==
    /\ calls[p].pc = "classify"
    /\ calls' = [calls EXCEPT ![p].pc = "done", ![p].status = "redirect_profile"]
    /\ resp' = Response("follow", calls[p].user, calls[p].author, "redirect_profile")
    /\ UNCHANGED <<store, now, cache>>

PendingFollow(user, author) ==
    [pc |-> "insert", user |-> user, author |-> author,
     outcome |-> "none", status |-> "none"]

\* Two follow calls for one pair (user, author) are in flight and the pair
\* has no edge; other edges may be stored.
InitRace ==
    /\ users = Users
    /\ groups = {}
    /\ posts = {}
    /\ comments = {}
    /\ nextPostId = 1
    /\ nextCommentId = 1
    /\ now = 0
    /\ cache = NoEntry
    /\ resp = NoResponse
    /\ \E u \in Users, a \in Users :
          /\ calls = [p \in Procs |-> PendingFollow(u, a)]
          /\ \E others \in SUBSET ((Users \X Users) \ {Edge(u, a)}) :
                follows = SetToBag(others)

NextRace ==
    \/ \E p \in Procs : FollowInsertStep(p)
    \/ \E p \in Procs : FollowClassifyStep(p)

SpecRace == InitRace /\ [][NextRace]_vars

\* ------------------------------------------------------- the whole system
\* Every operation on the store and every handler, from the empty store.
Next ==
    \/ \E u \in Users : CreateUser(u)
    \/ \E u \in Users : DeleteUser(u)
    \/ \E g \in GroupIds, slug \in Slugs : CreateGroup(g, slug)
    \/ \E g \in GroupIds : DeleteGroup(g)
    \/ \E id \in PostIds : DeletePost(id)
    \/ \E c \in Callers, g \in GroupIds \cup {NoGroup}, text \in Texts : PostCreate(c, g, text)
    \/ \E c \in Callers, id \in PostIds, g \in GroupIds \cup {NoGroup}, text \in Texts :
          PostEdit(c, id, g, text)
    \/ \E c \in Callers, id \in 1..MaxPosts, text \in Texts : AddComment(c, id, text)
    \/ \E c \in Callers, id \in 1..MaxPosts : PostDetailView(c, id)
    \/ \E c \in Callers, a \in Users : ProfileFollow(c, a)
    \/ \E c \in Callers, a \in Users : ProfileUnfollow(c, a)
    \/ \E c \in Callers, page \in 0..MaxPage : IndexView(c, page)
    \/ \E c \in Callers, slug \in Slugs, page \in 0..MaxPage : GroupListView(c, slug, page)
    \/ \E c \in Callers, u \in Users, page \in 0..MaxPage : ProfileView(c, u, page)
    \/ \E c \in Callers, page \in 0..MaxPage : FollowIndexView(c, page)
    \/ CacheClear
    \/ Tick

Spec == Init /\ [][Next]_vars

\* ------------------------------------------------------------------ claims
\* C1: in every reachable state the Follow store holds at most one edge for
\* each ordered pair (user, author).
FollowEdgeUnique ==
    \A e \in (Users \X Users) : CopiesIn(e, follows) <= 1

\* Two users follow each other and each edge is stored once.
FollowEdgesStoredOnce ==
    \E u \in users, a \in users :
        /\ u # a
        /\ CopiesIn(Edge(u, a), follows) = 1
        /\ CopiesIn(Edge(a, u), follows) = 1
        /\ FollowCount = 2

\* C3: a follow by an authenticated user of an existing author reports no
\* error and leaves the Follow rows equal to the previous rows plus the edge:
\* one row more and isFollowing true when there was no edge, the same rows
\* when there was one.
FollowAddsEdge ==
    [][(resp'.op = "follow" /\ resp'.user # Anonymous /\ resp'.arg \in users)
        => /\ resp'.status = "redirect_profile"
           /\ FollowingIn(follows', resp'.user, resp'.arg)
           /\ IF isFollowing(resp'.user, resp'.arg)
              THEN follows' = follows
              ELSE /\ follows' = follows (+) SetToBag({Edge(resp'.user, resp'.arg)})
                   /\ FollowCount' = FollowCount + 1]_vars

\* A follow was served and its edge is stored beside another one.
FollowServed ==
    /\ resp.op = "follow"
    /\ resp.status = "redirect_profile"
    /\ isFollowing(resp.user, resp.arg)
    /\ FollowCount = 2

\* C4: an unfollow by an authenticated user of an existing author reports no
\* error, leaves isFollowing false and touches no other edge: one row less
\* when there was an edge, the same rows when there was none.
UnfollowRemovesEdge ==
    [][(resp'.op = "unfollow" /\ resp'.user # Anonymous /\ resp'.arg \in users)
        => /\ resp'.status = "redirect_profile"
           /\ ~FollowingIn(follows', resp'.user, resp'.arg)
           /\ \A e \in (Users \X Users) \ {Edge(resp'.user, resp'.arg)} :
                  CopiesIn(e, follows') = CopiesIn(e, follows)
           /\ IF isFollowing(resp'.user, resp'.arg)
              THEN FollowCount' = FollowCount - 1
              ELSE follows' = follows]_vars

\* An unfollow was served, its edge is gone and another edge is still stored.
UnfollowServed ==
    /\ resp.op = "unfollow"
    /\ resp.status = "redirect_profile"
    /\ ~isFollowing(resp.user, resp.arg)
    /\ FollowCount = 1

\* C2: two concurrent follow calls for one pair that had no edge never store
\* two edges, and once both have returned exactly one edge is stored: one
\* call created it, the other met the constraint and was answered as
\* "already following", neither with an error.
RacePair == Edge(calls["p1"].user, calls["p1"].author)
RaceOver == \A p \in Procs : calls[p].pc = "done"
FollowRaceOneEdge ==
    /\ CopiesIn(RacePair, follows) <= 1
    /\ RaceOver =>
          /\ CopiesIn(RacePair, follows) = 1
          /\ Cardinality({p \in Procs : calls[p].outcome = "created"}) = 1
          /\ Cardinality({p \in Procs : calls[p].outcome = "conflict"}) = 1
          /\ \A p \in Procs : calls[p].status = "redirect_profile"

\* Both calls have returned, the second thread's insert won.
FollowRaceOver ==
    /\ RaceOver
    /\ calls["p2"].outcome = "created"
    /\ calls["p1"].outcome = "conflict"
    /\ CopiesIn(RacePair, follows) = 1

Range(seq) == {seq[i] : i \in 1..Len(seq)}

\* C5: the following feed of a user holds a post exactly when the post's
\* author is one the user follows now, and is the empty sequence, served
\* without error, when the user follows no one; a served follow puts the
\* author's posts into the caller's feed and a served unfollow takes them out.
FollowingFeedByFollow ==
    /\ (resp.op = "follow_index" /\ resp.user # Anonymous) =>
          /\ resp.status = "ok"
          /\ Range(resp.items) = {p.id : p \in {q \in posts : isFollowing(resp.user, q.author)}}
          /\ Len(resp.items) = Cardinality(Range(resp.items))
          /\ (\A a \in users : ~isFollowing(resp.user, a)) => resp.items = <<>>
    /\ (resp.op = "follow" /\ resp.status = "redirect_profile") =>
          \A p \in posts : p.author = resp.arg => p \in ScopePosts(FollowingFeed(resp.user))
    /\ (resp.op = "unfollow" /\ resp.status = "redirect_profile") =>
          \A p \in posts : p.author = resp.arg => p \notin ScopePosts(FollowingFeed(resp.user))

\* The following feed was served with a post of a followed author while a
\* post of an author the caller does not follow is stored.
FollowingFeedServed ==
    /\ resp.op = "follow_index"
    /\ resp.status = "ok"
    /\ resp.items # <<>>
    /\ \E p \in posts : p.id \notin Range(resp.items)

\* C6: for every scope and page size, whatever the queries behind the pages
\* return, each page has at most pageSize items and pages 1, 2, ... put one
\* after the other are the scope's posts newest first, each exactly once.
RECURSIVE PagesFrom(_, _, _, _)
PagesFrom(S, page, last, pageSize) ==
    IF page > last THEN {<<>>}
    ELSE {PageOf(result, page, pageSize) \o rest :
             result \in PostOrderings(S), rest \in PagesFrom(S, page + 1, last, pageSize)}
PagesReproduceFeed ==
    \A scope \in Scopes, pageSize \in 1..MaxPageSize :
        LET S == ScopePosts(scope)
        IN /\ \A result \in PostOrderings(S), page \in 1..MaxPage :
                 Len(assemble(result, page, pageSize).items) <= pageSize
           /\ \A all \in PagesFrom(S, 1, NumPages(Cardinality(S), pageSize), pageSize) :
                 all \in PostOrderings(S)

\* C9: the group feed of a slug holds exactly the posts whose group has that
\* slug, and no post of another group.
GroupFeedByGroup ==
    (resp.op = "group_list" /\ resp.status = "ok") =>
        /\ Range(resp.items) =
              {p.id : p \in {q \in posts : \E g \in groups :
                                 g.id = q.group /\ g.slug = resp.arg[1].slug}}
        /\ \A g1 \in groups, g2 \in groups, p \in posts :
              (g1 # g2 /\ p.group = g1.id /\ g2.slug = resp.arg[1].slug)
                  => p.id \notin Range(resp.items)

\* The feed of one group was served with a post while another group has a
\* post too.
GroupFeedServed ==
    /\ resp.op = "group_list"
    /\ resp.status = "ok"
    /\ resp.items # <<>>
    /\ \E g \in groups, p \in posts : g.slug # resp.arg[1].slug /\ p.group = g.id

\* The scope a served feed was computed for.
ServedScope == resp.arg[1]

\* What C7 gives for the number of items of page k of totalCount posts.
ClaimedLength(totalCount, pageSize, k) ==
    IF k > NumPages(totalCount, pageSize) THEN 0
    ELSE IF k < NumPages(totalCount, pageSize) THEN pageSize
    ELSE IF totalCount % pageSize # 0 THEN totalCount % pageSize ELSE pageSize

\* C7: the last page of a scope with totalCount > 0 posts holds totalCount
\* mod pageSize items when that is not 0 and pageSize items otherwise, every
\* page before it holds pageSize items and every page after it is empty; so
\* is every page of a scope with no post. This for the pages served with
\* POSTS_COUNT posts a page and for assemble with any page size.
PageLengths ==
    /\ (resp.op \in {"index", "group_list", "profile"} /\ resp.status = "ok") =>
          Len(resp.items) =
              ClaimedLength(Cardinality(ScopePosts(ServedScope)), POSTS_COUNT,
                            PageNumber(resp.arg[2]))
    /\ \A scope \in Scopes, pageSize \in 1..MaxPageSize :
          \A result \in PostOrderings(ScopePosts(scope)) : \A k \in 1..(Len(result) + 1) :
              /\ assemble(result, k, pageSize).totalCount = Cardinality(ScopePosts(scope))
              /\ Len(assemble(result, k, pageSize).items)
                    = ClaimedLength(Len(result), pageSize, k)

\* With 13 posts and 10 a page, page 2 of the home feed was served with 3
\* posts.
PageTwoOfThirteen ==
    /\ Cardinality(posts) = BulkPosts
    /\ resp.op = "index"
    /\ resp.arg[2] = 2
    /\ Len(resp.items) = 3

\* The renderings of the home page that the stored posts allow.
LiveHomePages == {Render(PageOf(result, 1, POSTS_COUNT)) : result \in PostOrderings(posts)}

\* C8: while the cached home page is fresh, every read returns the cached
\* rendering and leaves the entry alone, no write to Post touches the entry
\* and only cache.clear() removes it; a read that finds no fresh entry, as
\* after cache.clear(), renders the posts stored now and caches that.
CachedHomeServed ==
    [][/\ (CacheFresh /\ resp'.op = "index") =>
             (resp'.content = cache.content /\ cache' = cache)
       /\ (posts' # posts) => cache' = cache
       /\ (CacheFresh /\ cache' # cache) => cache' = NoEntry
       /\ (~CacheFresh /\ resp'.op = "index") =>
             /\ resp'.content \in LiveHomePages
             /\ cache' = [present |-> TRUE, content |-> resp'.content,
                          expires |-> now + CacheTTL]]_vars

\* The home page was served from the cache with a post that has since been
\* edited or deleted.
StaleHomeServed ==
    /\ resp.op = "index"
    /\ CacheFresh
    /\ resp.content = cache.content
    /\ resp.content # <<>>
    /\ resp.content \notin LiveHomePages

\* C10: add_comment by an unauthenticated caller is answered with the
\* redirect to the login and stores no comment; by an authenticated caller on
\* a stored post it stores exactly one comment more on that post and none
\* elsewhere, and that comment is the first of post.comments.
AddCommentContract ==
    [][(resp'.op = "add_comment") =>
         IF resp'.user = Anonymous
         THEN resp'.status = "redirect_login" /\ comments' = comments
         ELSE resp'.arg[1] \in PostIds =>
                /\ resp'.status = "redirect_post_detail"
                /\ \A id \in PostIds :
                      Cardinality({c \in comments' : c.post = id})
                        = Cardinality(CommentsOf(id)) + (IF id = resp'.arg[1] THEN 1 ELSE 0)
                /\ \A result \in CommentOrderings({c \in comments' : c.post = resp'.arg[1]}) :
                      result[1].id = resp'.arg[2]]_vars

\* Newest first, and among posts of one instant the higher id first.
NewestThenIdFirst(items) ==
    \A i \in 1..Len(items), j \in 1..Len(items) :
        i < j => \/ items[i].pub_date > items[j].pub_date
                 \/ items[i].pub_date = items[j].pub_date /\ items[i].id > items[j].id

\* C11: a feed is ordered by descending pub_date and, among posts of one
\* instant, by descending id, so a request for a page that follows a request
\* for the same page of the same scope, with no write between them, is
\* served the same items in the same order.
FeedOrderDeterministic ==
    [][(/\ resp.op = "follow_index" /\ resp.status = "ok"
        /\ resp'.op = "follow_index" /\ resp'.status = "ok"
        /\ resp'.user = resp.user /\ resp'.arg = resp.arg)
       => /\ resp'.items = resp.items
          /\ \E result \in PostOrderings(ScopePosts(resp'.arg[1])) :
                /\ Ids(result) = resp'.items
                /\ NewestThenIdFirst(result)]_vars

\* C12: no reference dangles: every post is of a stored user, every comment
\* is of a stored user and on a stored post, every follow edge joins two
\* stored users; so a deleted user's posts, comments and edges and a deleted
\* post's comments are gone.
NoDanglingReference ==
    /\ \A p \in posts : p.author \in users
    /\ \A c \in comments : c.author \in users /\ c.post \in PostIds
    /\ \A e \in BagToSet(follows) : e[1] \in users /\ e[2] \in users

\* User 1 is deleted, and with it post 1 and comment 1; user 2 is left with
\* a post, a comment on it and a follow edge.
UserRowsCascaded ==
    /\ users = {2}
    /\ resp = NoResponse
    /\ nextPostId = 3 /\ PostIds = {2}
    /\ nextCommentId = 3 /\ {c.id : c \in comments} = {2}
    /\ FollowCount = 1

\* C13: a step that deletes a group deletes no post: each post of the deleted
\* group is kept with its group null and its id, text, author and pub_date as
\* they were, each other post is kept as it was, and the post count is the same.
GroupDeleteKeepsPosts ==
    [][\A g \in GroupIdsIn(groups) \ GroupIdsIn(groups') :
          /\ \A p \in posts :
                IF p.group = g
                THEN [p EXCEPT !.group = NoGroup] \in posts'
                ELSE p \in posts'
          /\ {p.id : p \in posts'} = PostIds
          /\ Cardinality(posts') = Cardinality(posts)]_vars

\* A group is deleted: its post is left with no group, beside a post of a
\* group that is still stored.
GroupDeletedUnderPost ==
    /\ resp = NoResponse
    /\ \E p \in posts : p.group = NoGroup
    /\ \E p \in posts : p.group \in GroupIdsIn(groups)

====
